---- MODULE Spec2Model ----
(***************************************************************************)
(* ApplicationIntegrationToolset: the construction pipeline of            *)
(* application_integration_toolset.py (__init__, _parse_spec_to_tools,     *)
(* get_tools) as a state machine.  The Spec Provider (IntegrationClient,   *)
(* ConnectionsClient) and the Parser (OpenAPIToolset) are external: each   *)
(* call either returns a value or raises, chosen nondeterministically.     *)
(***************************************************************************)
EXTENDS Naturals, Sequences, FiniteSets

\* ------------------------------------------------------------------ bounds

\* Longest sequence of tools the Parser returns in the model.
MaxTools == 3
\* Number of get_tools() calls made on a constructed instance.
MaxGetTools == 2

\* ------------------------------------------------------- values and inputs

\* Optional[T]: Python's None, or a value.
None == [some |-> FALSE]
Some(v) == [some |-> TRUE, val |-> v]

\* Python truthiness of an Optional[str]: None and "" are falsy.
TruthyStr(o) == o.some /\ o.val # ""
\* Python truthiness of an optional collection / text: None and empty are falsy.
TruthySeq(o) == o.some /\ o.val # <<>>

project == "p"
location == "us-central1"
tool_name == "tool"

OptNames(n) == {None, Some(""), Some(n)}
EntityOperationsValues == {None, Some(<<>>), Some(<<[entity |-> "Issues", operations |-> <<"LIST", "CREATE">>]>>)}
ActionsValues == {None, Some(<<>>), Some(<<"a1">>)}
\* A text is a sequence of string pieces; "" is the empty sequence.
ToolInstructionsValues == {None, Some(<<>>), Some(<<"Summarise the result.">>)}

SA_JSON_VALID == "{\"client_email\": \"sa@p.iam\", \"private_key\": \"k\"}"
SA_JSON_MALFORMED == "{\"client_email\": "
ServiceAccountJsonValues == {None, Some(""), Some(SA_JSON_VALID), Some(SA_JSON_MALFORMED)}

Configs ==
  [ integration : OptNames("my-integration"),
    trigger : OptNames("api_trigger/t1"),
    connection : OptNames("my-connection"),
    entity_operations : EntityOperationsValues,
    actions : ActionsValues,
    tool_instructions : ToolInstructionsValues,
    service_account_json : ServiceAccountJsonValues ]

\* What the external collaborators can return.
ConnectionDetailsValues == {[serviceName |-> "svc1", host |-> "host1"], [serviceName |-> "svc2", host |-> "host2"]}
Docs == {"docA", "docB"}
ToolNames == {"op1", "op2"}

RECURSIVE SeqsOfLen(_, _)
SeqsOfLen(S, n) ==
  IF n = 0 THEN {<<>>}
  ELSE {Append(s, x) : s \in SeqsOfLen(S, n - 1), x \in S}

SeqsUpTo(S, n) == UNION {SeqsOfLen(S, k) : k \in 0..n}

\* The Parser's output for a sequence of operation names: one tool per
\* operation, told apart by the position at which it was produced.
ToolsOf(names) == [k \in 1..Len(names) |-> [name |-> names[k], produced |-> k]]
ParserOutputs == {ToolsOf(names) : names \in SeqsUpTo(ToolNames, MaxTools)}

\* -------------------------------------------------------------- selectors

\* `if integration and trigger:`
IntegrationSelector(c) == TruthyStr(c.integration) /\ TruthyStr(c.trigger)

\* Faulty variant: the connection branch taken on `connection` alone.
ConnectionSelector_ConnectionOnly(c) == TruthyStr(c.connection)

\* `connection and (entity_operations or actions)`
ConnectionSelector(c) ==
  TruthyStr(c.connection) /\ (TruthySeq(c.entity_operations) \/ TruthySeq(c.actions))

\* ---------------------------------------------------------------- errors

NoError == [type |-> "none"]
ValueError == [type |-> "ValueError", origin |-> "__init__"]
TypeError == [type |-> "TypeError", origin |-> "__init__"]
ValidationError == [type |-> "ValidationError", origin |-> "ServiceAccountCredential.model_validate_json"]
UpstreamError(op) == [type |-> "UpstreamError", origin |-> op]

\* ------------------------------------------------------------------ text

\* Faulty variant: serviceName and host interchanged in the directive.
Directive_Swapped(details, conn) ==
  << "ALWAYS use serviceName = ", details.host,
     ", host = ", details.serviceName,
     " and the connection name = ",
     "projects/", project, "/locations/", location, "/connections/", conn,
     " when using this tool",
     ". DONOT ask the user for these values as you already have those." >>

\* The directive appended to tool_instructions in connection mode.
Directive(details, conn) ==
  << "ALWAYS use serviceName = ", details.serviceName,
     ", host = ", details.host,
     " and the connection name = ",
     "projects/", project, "/locations/", location, "/connections/", conn,
     " when using this tool",
     ". DONOT ask the user for these values as you already have those." >>

\* ------------------------------------------------------------------ auth

CLOUD_PLATFORM_SCOPE == "https://www.googleapis.com/auth/cloud-platform"

\* ServiceAccountCredential.model_validate_json: the parsed credential, or a
\* validation error for a payload that is not a service-account document.
model_validate_json(json) ==
  IF json = SA_JSON_VALID
  THEN [ok |-> TRUE, value |-> [client_email |-> "sa@p.iam", private_key |-> "k"]]
  ELSE [ok |-> FALSE]

\* The generic HTTP bearer scheme, HTTPBearer(bearerFormat="JWT").
HTTPBearer(fmt) == [type |-> "http", scheme |-> "bearer", bearerFormat |-> fmt]

\* The service-account scheme helper: the scheme it derives for the service
\* account, and the credential wrapping that service account.
service_account_scheme_credential(config) ==
  [ auth_scheme |-> [derived_by |-> "service_account_scheme_credential", config |-> config],
    auth_credential |-> [auth_type |-> "SERVICE_ACCOUNT", service_account |-> config] ]

\* Faulty variant: the default credential built without its scopes.
ResolveAuth_DefaultUnscoped(sa_json) ==
  IF TruthyStr(sa_json)
  THEN LET parsed == model_validate_json(sa_json.val) IN
       IF parsed.ok
       THEN LET service_account ==
                  [ service_account_credential |-> Some(parsed.value),
                    use_default_credential |-> FALSE,
                    scopes |-> <<CLOUD_PLATFORM_SCOPE>> ]
                pair == service_account_scheme_credential(service_account)
            IN [ok |-> TRUE, auth_scheme |-> pair.auth_scheme, auth_credential |-> pair.auth_credential]
       ELSE [ok |-> FALSE]
  ELSE [ ok |-> TRUE,
         auth_scheme |-> HTTPBearer("JWT"),
         auth_credential |->
           [ auth_type |-> "SERVICE_ACCOUNT",
             service_account |->
               [ service_account_credential |-> None,
                 use_default_credential |-> TRUE,
                 scopes |-> <<>> ] ] ]

\* The (scheme, credential) pair computed at the head of _parse_spec_to_tools.
ResolveAuth(sa_json) ==
  IF TruthyStr(sa_json)
  THEN LET parsed == model_validate_json(sa_json.val) IN
       IF parsed.ok
       THEN LET service_account ==
                  [ service_account_credential |-> Some(parsed.value),
                    use_default_credential |-> FALSE,
                    scopes |-> <<CLOUD_PLATFORM_SCOPE>> ]
                pair == service_account_scheme_credential(service_account)
            IN [ok |-> TRUE, auth_scheme |-> pair.auth_scheme, auth_credential |-> pair.auth_credential]
       ELSE [ok |-> FALSE]
  ELSE [ ok |-> TRUE,
         auth_scheme |-> HTTPBearer("JWT"),
         auth_credential |->
           [ auth_type |-> "SERVICE_ACCOUNT",
             service_account |->
               [ service_account_credential |-> None,
                 use_default_credential |-> TRUE,
                 scopes |-> <<CLOUD_PLATFORM_SCOPE>> ] ] ]

\* -------------------------------------------------------------- registry

\* generated_tools is a Python dict: a sequence of (key, value) entries in
\* insertion order, each key once.
DictKeys(d) == [k \in 1..Len(d) |-> d[k].key]
DictHas(d, key) == \E k \in 1..Len(d) : d[k].key = key

\* Faulty variant: d.setdefault(key, value), the first tool under a name is kept.
DictSet_KeepFirst(d, key, value) ==
  IF DictHas(d, key) THEN d ELSE Append(d, [key |-> key, value |-> value])

\* Faulty variant: an existing key is removed and inserted again at the end.
DictSet_MoveToEnd(d, key, value) ==
  LET IsOther(e) == e.key # key IN
    Append(SelectSeq(d, IsOther), [key |-> key, value |-> value])

\* d[key] = value: a new key is appended, an existing key keeps its position
\* and gets the new value.
DictSet(d, key, value) ==
  IF DictHas(d, key)
  THEN [k \in 1..Len(d) |-> IF d[k].key = key THEN [key |-> key, value |-> value] ELSE d[k]]
  ELSE Append(d, [key |-> key, value |-> value])

\* list(d.values())
DictValues(d) == [k \in 1..Len(d) |-> d[k].value]

\* ------------------------------------------------------------------ state

VARIABLES
  cfg,                 \* the constructor's arguments
  pc,                  \* where the constructor is
  clients,             \* the client objects constructed so far
  calls,               \* calls made to the Spec Provider and the Parser, in order
  connection_details,  \* local of __init__
  tool_instructions,   \* local (parameter) of __init__
  spec,                \* local of __init__: the document
  auth,                \* locals auth_scheme, auth_credential of _parse_spec_to_tools
  tools,               \* local of _parse_spec_to_tools: the Parser's output
  next_tool,           \* position of the `for tool in tools` loop
  generated_tools,     \* self.generated_tools
  thrown,              \* the error a collaborator raised, as it raised it
  error,               \* the error the constructor raised to its caller
  results              \* what each get_tools() call returned, in order

vars == << cfg, pc, clients, calls, connection_details, tool_instructions, spec,
           auth, tools, next_tool, generated_tools, thrown, error, results >>

Init ==
  /\ cfg \in Configs
  /\ pc = "init"
  /\ clients = <<>>
  /\ calls = <<>>
  /\ connection_details = None
  /\ tool_instructions = cfg.tool_instructions
  /\ spec = None
  /\ auth = None
  /\ tools = <<>>
  /\ next_tool = 1
  /\ generated_tools = <<>>
  /\ thrown = NoError
  /\ error = NoError
  /\ results = <<>>

\* An exception leaves __init__: the caller gets the error and no instance.
Raise(e) ==
  /\ pc' = "raised"
  /\ error' = e

\* A collaborator raised e; nothing in __init__ catches it.
Propagate(e) ==
  /\ thrown' = e
  /\ Raise(e)

\* Faulty variant: the credential payload is validated before the document request.
get_openapi_spec_for_integration_AuthFirst ==
  /\ pc = "init"
  /\ IntegrationSelector(cfg)
  /\ clients' = Append(clients, "IntegrationClient")
  /\ IF ~ResolveAuth(cfg.service_account_json).ok
     THEN /\ Propagate(ValidationError)
          /\ UNCHANGED << calls, spec >>
     ELSE /\ calls' = Append(calls, [ op |-> "get_openapi_spec_for_integration",
                                      args |-> [integration |-> cfg.integration.val, trigger |-> cfg.trigger.val] ])
          /\ \/ \E doc \in Docs :
                  /\ spec' = Some(doc)
                  /\ pc' = "parse_spec"
                  /\ UNCHANGED << thrown, error >>
             \/ /\ Propagate(UpstreamError("get_openapi_spec_for_integration"))
                /\ UNCHANGED spec
  /\ UNCHANGED << cfg, connection_details, tool_instructions, auth, tools,
                  next_tool, generated_tools, results >>

\* Lines 186-197: integration mode.
get_openapi_spec_for_integration ==
  /\ pc = "init"
  /\ IntegrationSelector(cfg)
  /\ clients' = Append(clients, "IntegrationClient")
  /\ calls' = Append(calls, [ op |-> "get_openapi_spec_for_integration",
                              args |-> [integration |-> cfg.integration.val, trigger |-> cfg.trigger.val] ])
  /\ \/ \E doc \in Docs :
          /\ spec' = Some(doc)
          /\ pc' = "parse_spec"
          /\ UNCHANGED << thrown, error >>
     \/ /\ Propagate(UpstreamError("get_openapi_spec_for_integration"))
        /\ UNCHANGED spec
  /\ UNCHANGED << cfg, connection_details, tool_instructions, auth, tools,
                  next_tool, generated_tools, results >>

\* Faulty variant: the connection branch is an `if` of its own, not an `elif`.
get_connection_details_NotElif ==
  /\ pc = "init"
  /\ ConnectionSelector(cfg)
  /\ clients' = clients \o <<"IntegrationClient", "ConnectionsClient">>
  /\ calls' = Append(calls, [ op |-> "get_connection_details",
                              args |-> [connection |-> cfg.connection.val] ])
  /\ \/ \E details \in ConnectionDetailsValues :
          /\ connection_details' = Some(details)
          /\ pc' = "augment"
          /\ UNCHANGED << thrown, error >>
     \/ /\ Propagate(UpstreamError("get_connection_details"))
        /\ UNCHANGED connection_details
  /\ UNCHANGED << cfg, tool_instructions, spec, auth, tools, next_tool,
                  generated_tools, results >>

\* Lines 186-202: connection mode, the connection-metadata request.
get_connection_details ==
  /\ pc = "init"
  /\ ~IntegrationSelector(cfg)
  /\ ConnectionSelector(cfg)
  /\ clients' = clients \o <<"IntegrationClient", "ConnectionsClient">>
  /\ calls' = Append(calls, [ op |-> "get_connection_details",
                              args |-> [connection |-> cfg.connection.val] ])
  /\ \/ \E details \in ConnectionDetailsValues :
          /\ connection_details' = Some(details)
          /\ pc' = "augment"
          /\ UNCHANGED << thrown, error >>
     \/ /\ Propagate(UpstreamError("get_connection_details"))
        /\ UNCHANGED connection_details
  /\ UNCHANGED << cfg, tool_instructions, spec, auth, tools, next_tool,
                  generated_tools, results >>

\* Lines 203-216: tool_instructions += directive, then the document request.
get_openapi_spec_for_connection ==
  /\ pc = "augment"
  /\ IF ~tool_instructions.some
     THEN \* None += str
          /\ Raise(TypeError)
          /\ UNCHANGED << tool_instructions, calls, spec, thrown >>
     ELSE LET augmented == Some(tool_instructions.val
                                  \o Directive(connection_details.val, cfg.connection.val)) IN
          /\ tool_instructions' = augmented
          /\ calls' = Append(calls, [ op |-> "get_openapi_spec_for_connection",
                                      args |-> [tool_name |-> tool_name,
                                                tool_instructions |-> augmented.val] ])
          /\ \/ \E doc \in Docs :
                  /\ spec' = Some(doc)
                  /\ pc' = "parse_spec"
                  /\ UNCHANGED << thrown, error >>
             \/ /\ Propagate(UpstreamError("get_openapi_spec_for_connection"))
                /\ UNCHANGED spec
  /\ UNCHANGED << cfg, clients, connection_details, auth, tools, next_tool,
                  generated_tools, results >>

\* Faulty variant: the error is raised unless exactly one selector holds.
raise_value_error_UnlessExactlyOne ==
  /\ pc = "init"
  /\ IntegrationSelector(cfg) = ConnectionSelector(cfg)
  /\ clients' = Append(clients, "IntegrationClient")
  /\ Raise(ValueError)
  /\ UNCHANGED << cfg, calls, connection_details, tool_instructions, spec, auth,
                  tools, next_tool, generated_tools, thrown, results >>

\* Lines 186-195, 217-221: neither selector holds.
raise_value_error ==
  /\ pc = "init"
  /\ ~IntegrationSelector(cfg)
  /\ ~ConnectionSelector(cfg)
  /\ clients' = Append(clients, "IntegrationClient")
  /\ Raise(ValueError)
  /\ UNCHANGED << cfg, calls, connection_details, tool_instructions, spec, auth,
                  tools, next_tool, generated_tools, thrown, results >>

\* Lines 222, 226-245: the (scheme, credential) pair.
resolve_auth ==
  /\ pc = "parse_spec"
  /\ LET r == ResolveAuth(cfg.service_account_json) IN
       IF r.ok
       THEN /\ auth' = Some([auth_scheme |-> r.auth_scheme, auth_credential |-> r.auth_credential])
            /\ pc' = "parser"
            /\ UNCHANGED << thrown, error >>
       ELSE /\ Propagate(ValidationError)
            /\ UNCHANGED auth
  /\ UNCHANGED << cfg, clients, calls, connection_details, tool_instructions, spec,
                  tools, next_tool, generated_tools, results >>

\* Faulty variant: a Parser failure is caught and construction goes on with no tools.
parse_SwallowFailure ==
  /\ pc = "parser"
  /\ calls' = Append(calls, [ op |-> "OpenAPIToolset.get_tools",
                              args |-> [ spec_dict |-> spec.val,
                                         auth_credential |-> auth.val.auth_credential,
                                         auth_scheme |-> auth.val.auth_scheme ] ])
  /\ \/ \E out \in ParserOutputs :
          /\ tools' = out
          /\ thrown' = thrown
     \/ /\ tools' = <<>>
        /\ thrown' = UpstreamError("OpenAPIToolset.get_tools")
  /\ next_tool' = 1
  /\ pc' = "populate"
  /\ UNCHANGED << cfg, clients, connection_details, tool_instructions, spec, auth,
                  generated_tools, error, results >>

\* Lines 246-250: OpenAPIToolset(spec_dict, auth_credential, auth_scheme).get_tools().
parse ==
  /\ pc = "parser"
  /\ calls' = Append(calls, [ op |-> "OpenAPIToolset.get_tools",
                              args |-> [ spec_dict |-> spec.val,
                                         auth_credential |-> auth.val.auth_credential,
                                         auth_scheme |-> auth.val.auth_scheme ] ])
  /\ \/ \E out \in ParserOutputs :
          /\ tools' = out
          /\ next_tool' = 1
          /\ pc' = "populate"
          /\ UNCHANGED << thrown, error >>
     \/ /\ Propagate(UpstreamError("OpenAPIToolset.get_tools"))
        /\ UNCHANGED << tools, next_tool >>
  /\ UNCHANGED << cfg, clients, connection_details, tool_instructions, spec, auth,
                  generated_tools, results >>

\* Lines 251-252: one iteration of `for tool in tools`.
populate ==
  /\ pc = "populate"
  /\ next_tool <= Len(tools)
  /\ generated_tools' = DictSet(generated_tools, tools[next_tool].name, tools[next_tool])
  /\ next_tool' = next_tool + 1
  /\ UNCHANGED << cfg, pc, clients, calls, connection_details, tool_instructions,
                  spec, auth, tools, thrown, error, results >>

\* The loop is exhausted, _parse_spec_to_tools and __init__ return: the caller
\* holds the instance.
construct_return ==
  /\ pc = "populate"
  /\ next_tool > Len(tools)
  /\ pc' = "done"
  /\ UNCHANGED << cfg, clients, calls, connection_details, tool_instructions, spec,
                  auth, tools, next_tool, generated_tools, thrown, error, results >>

\* Faulty variant: get_tools() hands the tools over and empties the registry.
get_tools_Draining ==
  /\ pc = "done"
  /\ Len(results) < MaxGetTools
  /\ results' = Append(results, DictValues(generated_tools))
  /\ generated_tools' = <<>>
  /\ UNCHANGED << cfg, pc, clients, calls, connection_details, tool_instructions,
                  spec, auth, tools, next_tool, thrown, error >>

\* Lines 254-255: callable on an instance the caller holds.
get_tools ==
  /\ pc = "done"
  /\ Len(results) < MaxGetTools
  /\ results' = Append(results, DictValues(generated_tools))
  /\ UNCHANGED << cfg, pc, clients, calls, connection_details, tool_instructions,
                  spec, auth, tools, next_tool, generated_tools, thrown, error >>

Next ==
  \/ get_openapi_spec_for_integration
  \/ get_connection_details
  \/ get_openapi_spec_for_connection
  \/ raise_value_error
  \/ resolve_auth
  \/ parse
  \/ populate
  \/ construct_return
  \/ get_tools

Spec == Init /\ [][Next]_vars

\* ------------------------------------------------------ the claims' terms

\* A name is present when it was given and is not the empty string.
Present(o) == o.some /\ o.val # ""
\* A collection is non-empty when it was given and holds something.
NonEmpty(o) == o.some /\ Len(o.val) > 0

IntegrationAndTrigger(c) == Present(c.integration) /\ Present(c.trigger)
ConnectionAndOperations(c) ==
  Present(c.connection) /\ (NonEmpty(c.entity_operations) \/ NonEmpty(c.actions))

SpecProviderOps ==
  {"get_openapi_spec_for_integration", "get_connection_details", "get_openapi_spec_for_connection"}
ParserOp == "OpenAPIToolset.get_tools"

CallOps == [k \in 1..Len(calls) |-> calls[k].op]
IsSpecProviderOp(op) == op \in SpecProviderOps
SpecProviderCallOps == SelectSeq(CallOps, IsSpecProviderOp)
Count(op) == Cardinality({k \in 1..Len(calls) : calls[k].op = op})
Called(op) == Count(op) > 0
CallOf(op) == calls[CHOOSE k \in 1..Len(calls) : calls[k].op = op]

\* sub occurs in text at position k
OccursAt(text, sub, k) == k + Len(sub) - 1 <= Len(text) /\ SubSeq(text, k, k + Len(sub) - 1) = sub
Occurrences(text, sub) == Cardinality({k \in 1..Len(text) : OccursAt(text, sub, k)})
Contains(text, sub) == Occurrences(text, sub) > 0

ResourcePath(conn) == <<"projects/", project, "/locations/", location, "/connections/", conn>>

\* C1: a configuration with neither selector fails with the configuration
\* error (ValueError), and at that moment no Spec Provider operation has been
\* called and neither the Auth Resolver nor the Parser has run.
C1_InvalidConfigFailsBeforeAnyCall ==
  (~IntegrationAndTrigger(cfg) /\ ~ConnectionAndOperations(cfg)) =>
    /\ pc = "init" => ENABLED raise_value_error
    /\ pc # "init" =>
         /\ pc = "raised"
         /\ error = ValueError
         /\ calls = <<>>
         /\ spec = None
         /\ connection_details = None
         /\ auth = None
         /\ tools = <<>>
         /\ generated_tools = <<>>

C1_Witness ==
  /\ ~IntegrationAndTrigger(cfg)
  /\ ~ConnectionAndOperations(cfg)
  /\ Present(cfg.connection)
  /\ pc = "raised"
  /\ error = ValueError

\* C2: a successful connection-mode construction made exactly one
\* get_connection_details call and then exactly one
\* get_openapi_spec_for_connection call, and the instructions passed to the
\* latter are the caller's instructions extended once by a directive holding
\* the returned serviceName, the returned host and the resource path.
C2_ConnectionModeCallsAndInstructions ==
  (pc = "done" /\ ~IntegrationAndTrigger(cfg) /\ ConnectionAndOperations(cfg)) =>
    /\ SpecProviderCallOps = <<"get_connection_details", "get_openapi_spec_for_connection">>
    /\ connection_details.some
    /\ cfg.tool_instructions.some
    /\ LET given == cfg.tool_instructions.val
           passed == CallOf("get_openapi_spec_for_connection").args.tool_instructions
           added == SubSeq(passed, Len(given) + 1, Len(passed))
           path == ResourcePath(cfg.connection.val)
       IN /\ Len(passed) > Len(given)
          /\ SubSeq(passed, 1, Len(given)) = given
          /\ Contains(added, <<"ALWAYS use serviceName = ", connection_details.val.serviceName>>)
          /\ Contains(added, <<", host = ", connection_details.val.host>>)
          /\ Contains(added, path)
          /\ Occurrences(passed, path) = 1
          /\ Occurrences(passed, <<"ALWAYS use serviceName = ">>) = 1

C2_Witness ==
  /\ pc = "done"
  /\ ~IntegrationAndTrigger(cfg)
  /\ ConnectionAndOperations(cfg)
  /\ cfg.tool_instructions = Some(<<"Summarise the result.">>)
  /\ connection_details = Some([serviceName |-> "svc2", host |-> "host2"])

\* C3: with integration and trigger both present, whatever connection,
\* entity_operations and actions are, the only Spec Provider call is one
\* get_openapi_spec_for_integration, and the instructions are not augmented.
C3_IntegrationModeOnly ==
  (IntegrationAndTrigger(cfg) /\ pc # "init") =>
    /\ SpecProviderCallOps = <<"get_openapi_spec_for_integration">>
    /\ connection_details = None
    /\ tool_instructions = cfg.tool_instructions

C3_Witness ==
  /\ IntegrationAndTrigger(cfg)
  /\ ConnectionAndOperations(cfg)
  /\ pc = "done"
  /\ SpecProviderCallOps = <<"get_openapi_spec_for_integration">>

\* C4 as stated: a configuration in which both selectors hold is invalid, so
\* its construction fails with the configuration error.
C4_BothSelectorsRejected ==
  (IntegrationAndTrigger(cfg) /\ ConnectionAndOperations(cfg) /\ pc # "init") =>
    (pc = "raised" /\ error = ValueError)

\* C4 amended: the configuration error is raised exactly when neither
\* selector holds; a configuration in which both hold is accepted and built
\* from the integration document.
C4_AtLeastOneSelector ==
  /\ (pc # "init") =>
       ((error = ValueError) <=> (~IntegrationAndTrigger(cfg) /\ ~ConnectionAndOperations(cfg)))
  /\ (IntegrationAndTrigger(cfg) /\ ConnectionAndOperations(cfg) /\ pc = "done") =>
       (Called("get_openapi_spec_for_integration") /\ ~Called("get_connection_details"))

C4_Witness ==
  /\ IntegrationAndTrigger(cfg)
  /\ ConnectionAndOperations(cfg)
  /\ pc = "done"
  /\ error = NoError

\* The set of names the Parser produced, and the last tool it produced under
\* a name.
NamesOf(ts) == {ts[k].name : k \in 1..Len(ts)}
LastNamed(ts, n) ==
  ts[CHOOSE k \in 1..Len(ts) : ts[k].name = n /\ \A j \in (k + 1)..Len(ts) : ts[j].name # n]
TimesProduced(ts, n) == Cardinality({k \in 1..Len(ts) : ts[k].name = n})
NoRepeatedName(ts) == \A n \in NamesOf(ts) : TimesProduced(ts, n) = 1

C6_AllOrNothing ==
  /\ \A op \in SpecProviderOps \cup {ParserOp} : Count(op) <= 1
  /\ thrown.type = "UpstreamError" =>
       /\ pc = "raised"
       /\ error = thrown
       /\ calls # <<>>
       /\ calls[Len(calls)].op = thrown.origin
       /\ spec.some => thrown.origin = ParserOp
       /\ thrown.origin = "get_connection_details" => tool_instructions = cfg.tool_instructions
       /\ thrown.origin # ParserOp => auth = None
       /\ tools = <<>>
       /\ generated_tools = <<>>
  /\ pc # "done" => results = <<>>
  /\ pc = "done" =>
       /\ error = NoError
       /\ next_tool = Len(tools) + 1
       /\ \A n \in NamesOf(tools) : DictHas(generated_tools, n)
  /\ \A r \in 1..Len(results) : Len(results[r]) = Cardinality(NamesOf(tools))

C6_Witness ==
  /\ pc = "raised"
  /\ thrown = UpstreamError(ParserOp)
  /\ error = thrown
  /\ CallOps = <<"get_connection_details", "get_openapi_spec_for_connection", ParserOp>>

\* C7: the pair handed to the Parser is the resolved pair.  Without a
\* service-account JSON the credential is the default-credential variant and
\* the scheme the generic HTTP bearer scheme of format JWT; with a valid one
\* the credential wraps the parsed service account and the scheme is the one
\* the service-account scheme helper derives; the scopes are exactly
\* cloud-platform in both cases.
C7_AuthPair ==
  Called(ParserOp) =>
    LET a == CallOf(ParserOp).args
        sa == a.auth_credential.service_account
    IN /\ auth.some
       /\ a.auth_scheme = auth.val.auth_scheme
       /\ a.auth_credential = auth.val.auth_credential
       /\ a.spec_dict = spec.val
       /\ a.auth_credential.auth_type = "SERVICE_ACCOUNT"
       /\ sa.scopes = <<"https://www.googleapis.com/auth/cloud-platform">>
       /\ ~Present(cfg.service_account_json) =>
            /\ sa.use_default_credential
            /\ sa.service_account_credential = None
            /\ a.auth_scheme = [type |-> "http", scheme |-> "bearer", bearerFormat |-> "JWT"]
       /\ Present(cfg.service_account_json) =>
            /\ cfg.service_account_json.val = SA_JSON_VALID
            /\ ~sa.use_default_credential
            /\ sa.service_account_credential = Some([client_email |-> "sa@p.iam", private_key |-> "k"])
            /\ a.auth_scheme = service_account_scheme_credential(sa).auth_scheme

C7_Witness ==
  /\ Called(ParserOp)
  /\ cfg.service_account_json = Some(SA_JSON_VALID)
  /\ auth.some
  /\ auth.val.auth_credential.service_account.service_account_credential.some

\* C8: once constructed the registry never changes, and every get_tools()
\* call returns what the first one returned.
C8_GetToolsIdempotent ==
  /\ [](\A r \in 1..Len(results) : results[r] = results[1])
  /\ [][pc = "done" => generated_tools' = generated_tools]_vars
  /\ [][generated_tools' # generated_tools => (pc = "populate" /\ results = <<>>)]_vars

C8_Witness ==
  /\ Len(results) = 2
  /\ Len(results[1]) = 2
  /\ results[2] = results[1]

\* C9: the steps run in the order validation, document retrieval, Auth
\* Resolver, Parser, registry population.  With a valid configuration and a
\* malformed service-account JSON the credential parse error is raised after
\* the document request completed, with the Parser never called and the
\* registry empty and never returned; with an invalid configuration and a
\* malformed JSON the error is the configuration error.
C9_PipelineOrder ==
  LET valid == IntegrationAndTrigger(cfg) \/ ConnectionAndOperations(cfg)
      malformed == cfg.service_account_json = Some(SA_JSON_MALFORMED)
  IN /\ (calls # <<>> \/ spec.some) => valid
     /\ auth.some => spec.some
     /\ Called(ParserOp) => (auth.some /\ calls[Len(calls)].op = ParserOp)
     /\ (tools # <<>> \/ generated_tools # <<>>) => Called(ParserOp)
     /\ error = ValidationError =>
          /\ malformed
          /\ valid
          /\ spec.some
          /\ calls # <<>>
          /\ calls[Len(calls)].op \in {"get_openapi_spec_for_integration", "get_openapi_spec_for_connection"}
          /\ ~Called(ParserOp)
          /\ generated_tools = <<>>
          /\ results = <<>>
     /\ (malformed /\ valid /\ pc = "raised") => error # ValueError
     /\ (malformed /\ ~valid /\ pc # "init") => (pc = "raised" /\ error = ValueError)
     /\ (malformed /\ spec.some) => (pc \in {"parse_spec", "raised"} /\ ~Called(ParserOp))

C9_Witness ==
  /\ cfg.service_account_json = Some(SA_JSON_MALFORMED)
  /\ pc = "raised"
  /\ error = ValidationError
  /\ spec.some
  /\ CallOps = <<"get_connection_details", "get_openapi_spec_for_connection">>

\* The distinct names of a sequence of tools, in order of first occurrence.
RECURSIVE FirstOccurrences(_)
FirstOccurrences(ts) ==
  IF ts = <<>> THEN <<>>
  ELSE LET front == SubSeq(ts, 1, Len(ts) - 1)
           last == ts[Len(ts)].name
       IN IF last \in NamesOf(front)
          THEN FirstOccurrences(front)
          ELSE Append(FirstOccurrences(front), last)

\* C10: the names of get_tools() are the distinct names of the Parser's
\* output in order of first occurrence, so the tool that survives under a
\* repeated name stands where that name was first produced.
C10_FirstOccurrencePosition ==
  \A r \in 1..Len(results) :
    /\ [k \in 1..Len(results[r]) |-> results[r][k].name] = FirstOccurrences(tools)
    /\ \A k \in 1..Len(results[r]) : results[r][k] = LastNamed(tools, FirstOccurrences(tools)[k])

C10_Witness ==
  /\ Len(results) >= 1
  /\ Len(tools) = 3
  /\ tools[1].name = tools[3].name
  /\ tools[2].name # tools[1].name
  /\ results[1] = <<tools[3], tools[2]>>

====
